---- MODULE Spec2Model ----
(***************************************************************************)
(* A model of app.py: the redaction engine sanitize_output (six regular    *)
(* expression substitutions applied in order), the device fetch            *)
(* connect_and_fetch, the analysis call ask_gemini_agent and the script    *)
(* main() that sequences them and stores the results in st.session_state.  *)
(*                                                                         *)
(* Texts are TLA+ strings, handled character by character with SubSeq.     *)
(* Strings of the source that are not ASCII (the emoji of the messages,    *)
(* the Japanese instructions of the prompt) are left out of the literals;  *)
(* none of them takes part in a pattern of sanitize_output.                *)
(***************************************************************************)
EXTENDS Integers, Sequences, FiniteSets, TLC

(***************************************************************************)
(* Character classes of Python's re module, restricted to ASCII.           *)
(***************************************************************************)
Digits == {"0", "1", "2", "3", "4", "5", "6", "7", "8", "9"}

HexDigits == Digits \cup {"a", "b", "c", "d", "e", "f", "A", "B", "C", "D", "E", "F"}

Letters ==
    {"a", "b", "c", "d", "e", "f", "g", "h", "i", "j", "k", "l", "m",
     "n", "o", "p", "q", "r", "s", "t", "u", "v", "w", "x", "y", "z",
     "A", "B", "C", "D", "E", "F", "G", "H", "I", "J", "K", "L", "M",
     "N", "O", "P", "Q", "R", "S", "T", "U", "V", "W", "X", "Y", "Z"}

\* \w
WordChars == Digits \cup Letters \cup {"_"}

\* \s (the complement is \S)
Whitespace == {" ", "\t", "\n", "\r", "\f"}

\* The character of s at position i (1-based); "" outside the text.
At(s, i) == IF i >= 1 /\ i <= Len(s) THEN SubSeq(s, i, i) ELSE ""

\* A literal w of a pattern at position i: the position after it, or 0.
Lit(s, i, w) ==
    IF i >= 1 /\ i + Len(w) - 1 <= Len(s) /\ SubSeq(s, i, i + Len(w) - 1) = w
    THEN i + Len(w)
    ELSE 0

\* A greedy run of characters of class C from i: the first position not in C.
RECURSIVE SpanIn(_, _, _)
SpanIn(s, i, C) ==
    IF i <= Len(s) /\ At(s, i) \in C THEN SpanIn(s, i + 1, C) ELSE i

\* A greedy run of characters outside class C from i.
RECURSIVE SpanNotIn(_, _, _)
SpanNotIn(s, i, C) ==
    IF i <= Len(s) /\ At(s, i) \notin C THEN SpanNotIn(s, i + 1, C) ELSE i

\* \d+ at i: the position after the run, or 0. What follows \d+ in every
\* pattern is a space, so only the longest run can lead to a match.
DigitsPlus(s, i) ==
    IF i = 0 THEN 0
    ELSE LET e == SpanIn(s, i, Digits) IN IF e > i THEN e ELSE 0

\* \S+ at i: the position after the run, or 0. What follows \S+ in every
\* pattern is a space or the end of the pattern, so the longest run is the
\* one the engine keeps.
NonSpacePlus(s, i) ==
    IF i = 0 THEN 0
    ELSE LET e == SpanNotIn(s, i, Whitespace) IN IF e > i THEN e ELSE 0

\* \b at position p: exactly one of the characters before and at p is \w.
WordBoundary(s, p) == (At(s, p - 1) \in WordChars) # (At(s, p) \in WordChars)

\* \d{1,3} at i: every position the engine can stop at (it tries the longest
\* first and backtracks).
OctetEnds(s, i) ==
    IF i = 0 THEN {}
    ELSE {i + k : k \in {n \in 1..3 : \A j \in 0..(n - 1) : At(s, i + j) \in Digits}}

\* \d{1,3}\. at each of the starts: the positions after the dot.
OctetDot(s, starts) ==
    UNION {{e + 1 : e \in {x \in OctetEnds(s, i) : At(s, x) = "."}} : i \in starts}

Max(S) == CHOOSE x \in S : \A y \in S : y <= x

(***************************************************************************)
(* The lookahead body (?:10|172\.(?:1[6-9]|2\d|3[01])|192\.168)\. at i.    *)
(***************************************************************************)
PrivatePrefix(s, i) ==
    \/ Lit(s, i, "10.") > 0
    \/ /\ Lit(s, i, "172.") > 0
       /\ \/ At(s, i + 4) = "1" /\ At(s, i + 5) \in {"6", "7", "8", "9"}
          \/ At(s, i + 4) = "2" /\ At(s, i + 5) \in Digits
          \/ At(s, i + 4) = "3" /\ At(s, i + 5) \in {"0", "1"}
       /\ At(s, i + 6) = "."
    \/ Lit(s, i, "192.168.") > 0

(***************************************************************************)
(* The six patterns of rules: MatchEnd(r, s, i) is the position after the  *)
(* match of pattern r that starts at i, or 0 when there is none.           *)
(***************************************************************************)
\* (password|secret) \d+ \S+
KeywordEnd(s, i) ==
    IF Lit(s, i, "password") > 0 THEN Lit(s, i, "password") ELSE Lit(s, i, "secret")

MatchPassword(s, i) ==
    NonSpacePlus(s, Lit(s, DigitsPlus(s, Lit(s, KeywordEnd(s, i), " ")), " "))

\* (encrypted password) \S+
MatchEncrypted(s, i) == NonSpacePlus(s, Lit(s, i, "encrypted password "))

\* (snmp-server community) \S+
MatchCommunity(s, i) == NonSpacePlus(s, Lit(s, i, "snmp-server community "))

\* (username \S+ privilege \d+ secret \d+): the position after group 1
UsernameGroupEnd(s, i) ==
    DigitsPlus(s, Lit(s, DigitsPlus(s,
        Lit(s, NonSpacePlus(s, Lit(s, i, "username ")), " privilege ")), " secret "))

\* (username \S+ privilege \d+ secret \d+) \S+
MatchUsername(s, i) == NonSpacePlus(s, Lit(s, UsernameGroupEnd(s, i), " "))

\* \b(?!...)\d{1,3}\.(?:\d{1,3}\.){2}\d{1,3}\b
\* (a match starts with a digit, which is tested first: it is the cheapest)
MatchPublicIP(s, i) ==
    IF At(s, i) \notin Digits \/ ~WordBoundary(s, i) \/ PrivatePrefix(s, i) THEN 0
    ELSE LET last == OctetDot(s, OctetDot(s, OctetDot(s, {i})))
             ends == {e \in UNION {OctetEnds(s, j) : j \in last} : WordBoundary(s, e)}
         IN  IF ends = {} THEN 0 ELSE Max(ends)

\* [0-9A-Fa-f]{4} at i
Hex4(s, i) == \A j \in 0..3 : At(s, i + j) \in HexDigits

\* ([0-9A-Fa-f]{4}\.){2}[0-9A-Fa-f]{4}: every part has a fixed length
MatchMAC(s, i) ==
    IF /\ Hex4(s, i)
       /\ At(s, i + 4) = "."
       /\ Hex4(s, i + 5)
       /\ At(s, i + 9) = "."
       /\ Hex4(s, i + 10)
    THEN i + 14
    ELSE 0

NumRules == 6

MatchEnd(r, s, i) ==
    CASE r = 1 -> MatchPassword(s, i)
      [] r = 2 -> MatchEncrypted(s, i)
      [] r = 3 -> MatchCommunity(s, i)
      [] r = 4 -> MatchUsername(s, i)
      [] r = 5 -> MatchPublicIP(s, i)
      [] r = 6 -> MatchMAC(s, i)

\* The replacement templates, with \1 expanded for the match starting at i.
Replacement(r, s, i) ==
    CASE r = 1 -> SubSeq(s, i, KeywordEnd(s, i) - 1) \o " <HIDDEN_PASSWORD>"
      [] r = 2 -> "encrypted password <HIDDEN_PASSWORD>"
      [] r = 3 -> "snmp-server community <HIDDEN_COMMUNITY>"
      [] r = 4 -> SubSeq(s, i, UsernameGroupEnd(s, i) - 1) \o " <HIDDEN_SECRET>"
      [] r = 5 -> "<MASKED_PUBLIC_IP>"
      [] r = 6 -> "<MASKED_MAC>"

(***************************************************************************)
(* re.sub(pattern, replacement, s): the matches are found from left to     *)
(* right, each search starting where the previous match ended; the text    *)
(* between two matches is copied and each match is replaced. No pattern    *)
(* matches the empty string.                                               *)
(***************************************************************************)
\* F applied to the value of v. (The value is computed once and bound, where
\* a definition or an argument would be computed again at each use.)
Bind(v, F(_)) == CHOOSE out \in {F(x) : x \in {v}} : TRUE

\* The positions of s at which a match of pattern r starts.
MatchStarts(r, s) == {i \in 1..Len(s) : MatchEnd(r, s, i) > 0}

Min(S) == CHOOSE x \in S : \A y \in S : x <= y

\* The substitution from position i on: the leftmost match at or after i is
\* replaced and the search resumes after it.
RECURSIVE ReSubFrom(_, _, _, _)
ReSubFrom(r, s, starts, i) ==
    IF \A c \in starts : c < i THEN SubSeq(s, i, Len(s))
    ELSE LET c == Min({x \in starts : x >= i})
         IN  SubSeq(s, i, c - 1) \o Replacement(r, s, c)
                 \o Bind(MatchEnd(r, s, c), LAMBDA e : ReSubFrom(r, s, starts, e))

ReSub(r, s) == Bind(MatchStarts(r, s), LAMBDA starts : ReSubFrom(r, s, starts, 1))

\* The loop of sanitize_output over rules[1..r].
RECURSIVE ApplyRules(_, _)
ApplyRules(r, text) ==
    IF r = 0 THEN text
    ELSE Bind(ApplyRules(r - 1, text), LAMBDA s : ReSub(r, s))

sanitize_output(text) == ApplyRules(NumRules, text)

(***************************************************************************)
(* Configuration and constants (section 1 of app.py).                      *)
(***************************************************************************)
\* The value GOOGLE_API_KEY has when st.secrets holds no key.
KeyPlaceholder == "YOUR_GEMINI_API_KEY_HERE"

\* The values GOOGLE_API_KEY can have: the placeholder, or a key from st.secrets.
ApiKeys == {KeyPlaceholder, "AIzaSyExampleKey"}

\* The connection details of the device.
SANDBOX_DEVICE ==
    [device_type |-> "cisco_nxos", host |-> "sandbox-nxos-1.cisco.com",
     username |-> "admin", password |-> "Admin_1234!", port |-> 22,
     global_delay_factor |-> 2, banner_timeout |-> 30, conn_timeout |-> 30]

MODEL_NAME == "gemini-2.0-flash"

\* The fixed command list of connect_and_fetch.
commands ==
    <<"terminal length 0", "show version", "show interface brief", "show ip route">>

\* '=' * 30
Separator == "=============================="

\* f"Connected to: {prompt}\n"
Header(prompt) == "Connected to: " \o prompt \o "\n"

\* The block without {output}.
Block_NoOutput(cmd, output) ==
    "\n" \o Separator \o "\n[Command] " \o cmd \o "\n"

\* f"\n{'='*30}\n[Command] {cmd}\n{output}\n"
Block(cmd, output) ==
    "\n" \o Separator \o "\n[Command] " \o cmd \o "\n" \o output \o "\n"

(***************************************************************************)
(* What the device and the reasoning service can answer. The exception     *)
(* kinds are the three classes the except clauses of connect_and_fetch     *)
(* tell apart: NetmikoTimeoutException, NetmikoAuthenticationException and *)
(* any other Exception.                                                    *)
(***************************************************************************)
ExceptionKinds == {"timeout", "auth", "other"}

\* str(e) of an exception of each kind.
ExceptionText(kind) ==
    CASE kind = "timeout" -> "TCP connection to device failed."
      [] kind = "auth" -> "Authentication to device failed."
      [] kind = "other" -> "Socket is closed"

\* The prompt find_prompt() reads.
Prompts == {"sbx-n9kv-ao#"}

\* The texts send_command() can return: a command the device rejects (its own
\* failure text) and a status text with a public address and a hardware address.
Outputs ==
    {"% Invalid command at '^' marker.",
     "mgmt0 is up, address 203.0.113.5, 10.1.1.1, 0050.56bb.1a2b"}

\* response.text of a successful request (ASCII stand-ins for the report
\* format the prompt asks for, a heading and a verdict line).
Responses ==
    {"### Nexus Report\n**Verdict**: NORMAL\n1. Device 2. Interfaces 3. Routing 4. Actions",
     "### Nexus Report\n**Verdict**: CRITICAL\n1. Device 2. Interfaces 3. Routing 4. Actions"}

\* str(e) of a failure of the reasoning service, by the step that failed.
ServiceSteps == {"model", "request", "text"}

ServiceErrorText(step) ==
    CASE step = "model" -> "model not found"
      [] step = "request" -> "503 service unavailable"
      [] step = "text" -> "response has no text part"

\* The message ask_gemini_agent returns when the key is not set.
ConfigErrorMessage == "Error: set a valid API key in GOOGLE_API_KEY of the source."

\* The f-string prompt of ask_gemini_agent around {sanitized_log}.
BuildPrompt(sanitized_log) ==
    "\n    ### Nexus\n    --- Log Data Start ---\n    " \o sanitized_log
        \o "\n    --- Log Data End ---\n    "

NoResult == [success |-> FALSE, error |-> ""]

(***************************************************************************)
(* Bounds of the model.                                                    *)
(***************************************************************************)
\* Fragments an input text of sanitize_output is composed of.
MaxParts == 2

(***************************************************************************)
(* State.                                                                  *)
(*   GOOGLE_API_KEY  the module-level key                                  *)
(*   session_state   st.session_state: a function on the keys stored       *)
(*   pc              where the script run is: "idle" between script runs,  *)
(*                   else the call it is blocked in or about to make       *)
(*   status          the st.status container of the run: none, running,    *)
(*                   complete or error                                     *)
(*   shown           what the script run has displayed: <<kind, text>>     *)
(*   uncaught        an exception left main() in the last script run       *)
(*   ssh             the session of the run: none, open or closed          *)
(*   opens, closes   sessions opened and released in this run              *)
(*   prompt          the prompt read by find_prompt                        *)
(*   raw_output      the local raw_output of connect_and_fetch             *)
(*   sent, outs      the commands written to the session in this run, and  *)
(*                   the outputs read back                                 *)
(*   failure         the exception that ended the fetch of this run, and   *)
(*                   the number of commands written when it was raised     *)
(*   result          the value connect_and_fetch returned                  *)
(*   requests        the prompts sent to the reasoning service in this run *)
(*   analysis        how the reasoning service answered in this run: none  *)
(*                   (not asked), ok, or the step of it that failed        *)
(*   before          session_state as it was when this script run started  *)
(*   san_parts       the fragments of an input text of sanitize_output     *)
(*   san_res         the results of sanitize_output applied to it once,    *)
(*                   twice, ...                                            *)
(***************************************************************************)
VARIABLES GOOGLE_API_KEY, session_state, pc, status, shown, uncaught,
          ssh, opens, closes, prompt, raw_output, sent, outs, failure,
          result, requests, analysis, before, san_parts, san_res

pvars == <<GOOGLE_API_KEY, session_state, pc, status, shown, uncaught,
           ssh, opens, closes, prompt, raw_output, sent, outs, failure,
           result, requests, analysis, before>>

svars == <<san_parts, san_res>>

vars == <<pvars, svars>>

NoFailure == [kind |-> "none", at |-> 0]

Init ==
    /\ GOOGLE_API_KEY \in ApiKeys
    /\ session_state = <<>>
    /\ pc = "idle"
    /\ status = "none"
    /\ shown = {}
    /\ uncaught = FALSE
    /\ ssh = "none"
    /\ opens = 0
    /\ closes = 0
    /\ prompt = ""
    /\ raw_output = ""
    /\ sent = <<>>
    /\ outs = <<>>
    /\ failure = NoFailure
    /\ result = NoResult
    /\ requests = <<>>
    /\ analysis = "none"
    /\ before = <<>>
    /\ san_parts = <<>>
    /\ san_res = <<>>

(***************************************************************************)
(* connect_and_fetch                                                       *)
(***************************************************************************)
\* A single except clause for every exception.
FetchError_AllNetwork(kind) ==
    [success |-> FALSE, error |-> "Network Error: " \o ExceptionText(kind)]

\* The except clauses: the value returned for an exception of the kind.
FetchError(kind) ==
    IF kind \in {"timeout", "auth"}
    THEN [success |-> FALSE, error |-> "Network Error: " \o ExceptionText(kind)]
    ELSE [success |-> FALSE, error |-> "System Error: " \o ExceptionText(kind)]

\* The session used without a with block: nothing releases it.
SessionAfterExit_NoRelease(s) == s

\* Leaving the with block (__exit__ of the session): an open session is
\* released.
SessionAfterExit(s) == IF s = "open" THEN "closed" ELSE s

\* The list walked from its end.
CommandAt_Reversed(i) == commands[Len(commands) + 1 - i]

\* for cmd in commands: the command of the i-th iteration.
CommandAt(i) == commands[i]

\* An exception of the kind leaves the try block: the with block is left
\* first, then the except clause returns the error.
Raise(kind) ==
    /\ ssh' = SessionAfterExit(ssh)
    /\ closes' = IF ssh = "open" /\ SessionAfterExit(ssh) = "closed"
                 THEN closes + 1 ELSE closes
    /\ failure' = [kind |-> kind, at |-> Len(sent)]
    /\ result' = FetchError(kind)
    /\ pc' = "returned"

\* ConnectHandler(**SANDBOX_DEVICE): the session is opened, or the
\* constructor raises and there is no session to release.
Connect ==
    /\ pc = "connect"
    /\ \/ /\ ssh' = "open"
          /\ opens' = opens + 1
          /\ pc' = "find_prompt"
          /\ UNCHANGED <<closes, failure, result>>
       \/ /\ \E kind \in ExceptionKinds : Raise(kind)
          /\ UNCHANGED opens
    /\ UNCHANGED <<GOOGLE_API_KEY, session_state, status, shown, uncaught,
                   prompt, raw_output, sent, outs, requests, analysis, before, svars>>

\* prompt = ssh.find_prompt(); raw_output += f"Connected to: {prompt}\n"
FindPrompt ==
    /\ pc = "find_prompt"
    /\ \/ /\ \E p \in Prompts :
               /\ prompt' = p
               /\ raw_output' = raw_output \o Header(p)
          /\ pc' = IF Len(commands) = 0 THEN "disconnect" ELSE "send_command"
          /\ UNCHANGED <<ssh, closes, failure, result>>
       \/ /\ \E kind \in ExceptionKinds : Raise(kind)
          /\ UNCHANGED <<prompt, raw_output>>
    /\ UNCHANGED <<GOOGLE_API_KEY, session_state, status, shown, uncaught,
                   opens, sent, outs, requests, analysis, before, svars>>

\* ssh.send_command(cmd), first half: the next command of the list is
\* written to the session.
SendCommand ==
    /\ pc = "send_command"
    /\ sent' = Append(sent, CommandAt(Len(outs) + 1))
    /\ pc' = "read_output"
    /\ UNCHANGED <<GOOGLE_API_KEY, session_state, status, shown, uncaught,
                   ssh, opens, closes, prompt, raw_output, outs, failure,
                   result, requests, analysis, before, svars>>

\* ssh.send_command(cmd), second half: the output is read back and added to
\* raw_output, or the call raises. After the last command the loop ends.
ReadOutput ==
    /\ pc = "read_output"
    /\ \/ /\ \E output \in Outputs :
               /\ outs' = Append(outs, output)
               /\ raw_output' = raw_output \o Block(sent[Len(sent)], output)
          /\ pc' = IF Len(sent) >= Len(commands)
                   THEN "disconnect" ELSE "send_command"
          /\ UNCHANGED <<ssh, closes, failure, result>>
       \/ /\ \E kind \in ExceptionKinds : Raise(kind)
          /\ UNCHANGED <<outs, raw_output>>
    /\ UNCHANGED <<GOOGLE_API_KEY, session_state, status, shown, uncaught,
                   opens, prompt, sent, requests, analysis, before,
                   svars>>

\* The loop ends and the sanitizing starts inside the with block, the
\* session still open.
Disconnect_KeepsOpen ==
    /\ pc = "disconnect"
    /\ pc' = "sanitize"
    /\ UNCHANGED <<GOOGLE_API_KEY, session_state, status, shown, uncaught,
                   ssh, opens, closes, prompt, raw_output, sent, outs, failure,
                   result, requests, analysis, before, svars>>

\* The with block is left after the last command: the session is released.
Disconnect ==
    /\ pc = "disconnect"
    /\ ssh' = SessionAfterExit(ssh)
    /\ closes' = IF ssh = "open" /\ SessionAfterExit(ssh) = "closed"
                 THEN closes + 1 ELSE closes
    /\ pc' = "sanitize"
    /\ UNCHANGED <<GOOGLE_API_KEY, session_state, status, shown, uncaught,
                   opens, prompt, raw_output, sent, outs, failure, result,
                   requests, analysis, before, svars>>

\* The success value with the sanitizing left out.
FetchSuccess_Unsanitized(raw) ==
    [success |-> TRUE, raw |-> raw, sanitized |-> raw]

\* The value returned on success.
FetchSuccess(raw) ==
    [success |-> TRUE, raw |-> raw, sanitized |-> sanitize_output(raw)]

\* sanitized = sanitize_output(raw_output); return {...}
Sanitize ==
    /\ pc = "sanitize"
    /\ result' = FetchSuccess(raw_output)
    /\ pc' = "returned"
    /\ UNCHANGED <<GOOGLE_API_KEY, session_state, status, shown, uncaught,
                   ssh, opens, closes, prompt, raw_output, sent, outs,
                   failure, requests, analysis, before, svars>>

(***************************************************************************)
(* ask_gemini_agent                                                        *)
(***************************************************************************)
\* The key test as an equality with the marker instead of a containment.
KeyUnset_Exact(key) == key = "YOUR_GEMINI_API_KEY"

\* "YOUR_GEMINI_API_KEY" in GOOGLE_API_KEY
Contains(s, w) == \E i \in 1..Len(s) : Lit(s, i, w) > 0

KeyUnset(key) == Contains(key, "YOUR_GEMINI_API_KEY")

\* What a call gives its caller: a returned value, or an exception that
\* leaves the function.
Returned(value) == [raised |-> FALSE, value |-> value]

Raised(message) == [raised |-> TRUE, value |-> message]

\* No try block: the exception leaves ask_gemini_agent.
AnalysisFailure_Reraise(step) == Raised(ServiceErrorText(step))

\* The except clause answering with a canned report.
AnalysisFailure_CannedReport(step) ==
    Returned("### Nexus Report\n**Verdict**: NORMAL\n(no data)")

\* except Exception as e: return f"... AI Agent Error: {str(e)}"
AnalysisFailure(step) == Returned("AI Agent Error: " \o ServiceErrorText(step))

\* return response.text
AnalysisSuccess(text) == Returned(text)

(***************************************************************************)
(* main: one script run. A script run starts with a click of the button    *)
(* (Start) or with any other interaction (Rerender), and ends at "idle".   *)
(***************************************************************************)
\* The result area at the end of main: what session_state holds is shown.
Display(ss) ==
    IF "diag_result" \in DOMAIN ss
    THEN {<<"report", ss["ai_response"]>>,
          <<"sanitized", ss["diag_result"].sanitized>>,
          <<"raw", ss["diag_result"].raw>>}
    ELSE {}

\* A script run starts: the locals of the previous one are gone.
FreshLocals ==
    /\ uncaught' = FALSE
    /\ ssh' = "none"
    /\ opens' = 0
    /\ closes' = 0
    /\ prompt' = ""
    /\ raw_output' = ""
    /\ sent' = <<>>
    /\ outs' = <<>>
    /\ failure' = NoFailure
    /\ result' = NoResult
    /\ requests' = <<>>
    /\ analysis' = "none"
    /\ before' = session_state

\* execute_btn is true: the status container is opened and connect_and_fetch
\* is called.
Start ==
    /\ pc = "idle"
    /\ pc' = "connect"
    /\ status' = "running"
    /\ shown' = {}
    /\ FreshLocals
    /\ UNCHANGED <<GOOGLE_API_KEY, session_state, svars>>

\* A script run without the button that calls the pipeline all the same.
Rerender_RunsPipeline ==
    /\ pc = "idle"
    /\ status' = "none"
    /\ FreshLocals
    /\ shown' = {}
    /\ pc' = "connect"
    /\ UNCHANGED <<GOOGLE_API_KEY, session_state, svars>>

\* execute_btn is false: the script only renders what session_state holds.
Rerender ==
    /\ pc = "idle"
    /\ status' = "none"
    /\ FreshLocals
    /\ shown' = Display(session_state)
    /\ UNCHANGED <<GOOGLE_API_KEY, session_state, pc, svars>>

\* The failure branch without its return: main goes on to the analysis.
CheckResult_NoReturn ==
    /\ pc = "returned"
    /\ IF ~result.success
       THEN /\ status' = "error"
            /\ shown' = {<<"error", result.error>>, <<"json", SANDBOX_DEVICE>>}
            /\ pc' = "ask"
       ELSE /\ pc' = "ask"
            /\ UNCHANGED <<status, shown>>
    /\ UNCHANGED <<GOOGLE_API_KEY, session_state, uncaught, ssh, opens,
                   closes, prompt, raw_output, sent, outs, failure, result,
                   requests, analysis, before, svars>>

\* The failure branch retrying the fetch instead of returning.
CheckResult_Retry ==
    /\ pc = "returned"
    /\ IF ~result.success
       THEN /\ pc' = "connect"
            /\ UNCHANGED <<status, shown>>
       ELSE /\ pc' = "ask"
            /\ UNCHANGED <<status, shown>>
    /\ UNCHANGED <<GOOGLE_API_KEY, session_state, uncaught, ssh, opens,
                   closes, prompt, raw_output, sent, outs, failure, result,
                   requests, analysis, before, svars>>

\* The failure branch without its return, falling through to the result
\* area.
CheckResult_FallsThrough ==
    /\ pc = "returned"
    /\ IF ~result.success
       THEN /\ status' = "error"
            /\ shown' = {<<"error", result.error>>, <<"json", SANDBOX_DEVICE>>}
                            \cup Display(session_state)
            /\ pc' = "idle"
       ELSE /\ pc' = "ask"
            /\ UNCHANGED <<status, shown>>
    /\ UNCHANGED <<GOOGLE_API_KEY, session_state, uncaught, ssh, opens,
                   closes, prompt, raw_output, sent, outs, failure, result,
                   requests, analysis, before, svars>>

\* if not result["success"]: the status becomes an error, the error and the
\* connection details are shown (st.error, st.json) and main returns.
\* Otherwise ask_gemini_agent is called.
CheckResult ==
    /\ pc = "returned"
    /\ IF ~result.success
       THEN /\ status' = "error"
            /\ shown' = {<<"error", result.error>>, <<"json", SANDBOX_DEVICE>>}
            /\ pc' = "idle"
       ELSE /\ pc' = "ask"
            /\ UNCHANGED <<status, shown>>
    /\ UNCHANGED <<GOOGLE_API_KEY, session_state, uncaught, ssh, opens,
                   closes, prompt, raw_output, sent, outs, failure, result,
                   requests, analysis, before, svars>>

\* The storing that keeps a report already stored.
AfterAnalysis_KeepsReport(ret) ==
    /\ status' = "complete"
    /\ session_state' =
           [diag_result |-> result,
            ai_response |-> IF "ai_response" \in DOMAIN session_state
                            THEN session_state["ai_response"] ELSE ret.value]
    /\ shown' = Display(session_state')
    /\ pc' = "idle"
    /\ UNCHANGED uncaught

\* main after ask_gemini_agent(result["sanitized"]): the status is completed,
\* the results are stored in session_state and the result area is rendered.
\* An exception out of ask_gemini_agent would leave main as well.
AfterAnalysis(ret) ==
    IF ret.raised
    THEN /\ uncaught' = TRUE
         /\ pc' = "idle"
         /\ UNCHANGED <<status, session_state, shown>>
    ELSE /\ status' = "complete"
         /\ session_state' = [diag_result |-> result, ai_response |-> ret.value]
         /\ shown' = Display(session_state')
         /\ pc' = "idle"
         /\ UNCHANGED uncaught

\* ask_gemini_agent up to the request: with the key unset the fixed message
\* is returned; otherwise the model object is built (which may fail) and the
\* prompt is sent.
AskGemini ==
    /\ pc = "ask"
    /\ IF KeyUnset(GOOGLE_API_KEY)
       THEN /\ AfterAnalysis(Returned(ConfigErrorMessage))
            /\ UNCHANGED <<requests, analysis>>
       ELSE \/ /\ AfterAnalysis(AnalysisFailure("model"))
               /\ analysis' = "model"
               /\ UNCHANGED requests
            \/ /\ requests' = Append(requests, BuildPrompt(result.sanitized))
               /\ pc' = "generate"
               /\ UNCHANGED <<status, session_state, shown, uncaught, analysis>>
    /\ UNCHANGED <<GOOGLE_API_KEY, ssh, opens, closes, prompt, raw_output,
                   sent, outs, failure, result, before, svars>>

\* model.generate_content(prompt) and response.text: the text of the response,
\* or a failure of the request or of reading the text.
GenerateContent ==
    /\ pc = "generate"
    /\ \/ /\ \E text \in Responses : AfterAnalysis(AnalysisSuccess(text))
          /\ analysis' = "ok"
       \/ \E step \in {"request", "text"} :
              /\ AfterAnalysis(AnalysisFailure(step))
              /\ analysis' = step
    /\ UNCHANGED <<GOOGLE_API_KEY, ssh, opens, closes, prompt, raw_output,
                   sent, outs, failure, result, requests, before, svars>>

\* The steps of a run that follow its start.
RunStep ==
    \/ Connect
    \/ FindPrompt
    \/ SendCommand
    \/ ReadOutput
    \/ Disconnect
    \/ Sanitize
    \/ CheckResult
    \/ AskGemini
    \/ GenerateContent

Next == Start \/ Rerender \/ RunStep

Spec == Init /\ [][Next]_vars

\* The blocking calls return or time out, and the script runs on: a run that
\* can take a step takes one.
FairSpec == Spec /\ WF_vars(RunStep)

(***************************************************************************)
(* sanitize_output on its own: an input text is composed of fragments and  *)
(* sanitize_output is applied to it, and again to what it returned.        *)
(***************************************************************************)
Fragments ==
    {" ", "\n", "x", ".5", " RO",
     "203.0.113.5", "10.1.1.1", "172.16.0.1", "172.32.0.1", "192.168.1.1",
     "0050.56bb.1a2b",
     "password 7 ", "password 7 pw1",
     "encrypted password pw2",
     "snmp-server community MySecret123",
     "username bob privilege 15 secret 5 pw3"}

RECURSIVE Concat(_)
Concat(parts) ==
    IF parts = <<>> THEN "" ELSE Head(parts) \o Concat(Tail(parts))

\* The number of times sanitize_output is applied in a row.
MaxPasses == 2

SanCompose ==
    /\ san_res = <<>>
    /\ Len(san_parts) < MaxParts
    /\ \E f \in Fragments : san_parts' = Append(san_parts, f)
    /\ UNCHANGED <<san_res, pvars>>

SanApply ==
    /\ Len(san_res) < MaxPasses
    /\ san_res' = Append(san_res,
           sanitize_output(IF san_res = <<>> THEN Concat(san_parts)
                           ELSE san_res[Len(san_res)]))
    /\ UNCHANGED <<san_parts, pvars>>

SanNext == SanCompose \/ SanApply

SanSpec == Init /\ [][SanNext]_vars

(***************************************************************************)
(* Readings of the state used by the properties.                           *)
(***************************************************************************)
\* The verdict of a report: the one its verdict line names, UNKNOWN when it
\* has none (NORMAL, WARNING and CRITICAL stand for the three verdicts the
\* prompt asks the service to choose from).
Verdict(report) ==
    IF Contains(report, "**Verdict**: NORMAL") THEN "NORMAL"
    ELSE IF Contains(report, "**Verdict**: WARNING") THEN "WARNING"
    ELSE IF Contains(report, "**Verdict**: CRITICAL") THEN "CRITICAL"
    ELSE "UNKNOWN"

StartsWith(s, w) == Lit(s, 1, w) > 0

\* The raw transcript of a fetch that read prompt p and the outputs os of the
\* first Len(os) commands of the list.
RECURSIVE Blocks(_, _)
Blocks(os, k) ==
    IF k = 0 THEN "" ELSE Blocks(os, k - 1) \o Block(commands[k], os[k])

Transcript(p, os) == IF p = "" THEN "" ELSE Header(p) \o Blocks(os, Len(os))

\* The fetch of this run has failed.
FetchFailed == failure.kind # "none"

\* The script run has ended.
RunEnded == pc = "idle"

C2_SessionReleased ==
    /\ closes <= opens
    /\ opens <= 1
    /\ (ssh = "open") <=> (opens = closes + 1)
    /\ pc \in {"sanitize", "returned", "ask", "generate", "idle"} =>
           /\ opens = closes
           /\ ssh # "open"

\* A session was opened, the third command raised and the fetch has returned.
C2_Witness ==
    /\ pc = "returned"
    /\ failure = [kind |-> "other", at |-> 3]
    /\ opens = 1
    /\ closes = 1

(***************************************************************************)
(* C3. The only transcript text placed in a request to the reasoning       *)
(* service is sanitize_output of the raw transcript of the same run, and   *)
(* no request exists before the fetch has returned its sanitized result.   *)
(***************************************************************************)
C3_OnlySanitizedSent ==
    /\ pc \in {"connect", "find_prompt", "send_command", "read_output",
               "disconnect", "sanitize", "returned", "ask"} => requests = <<>>
    /\ Len(requests) <= 1
    /\ \A k \in 1..Len(requests) :
           /\ result.success
           /\ result.raw = raw_output
           /\ requests[k] = BuildPrompt(result.sanitized)
    /\ pc = "generate" =>
           requests = <<BuildPrompt(sanitize_output(Transcript(prompt, outs)))>>

\* A request is in flight for a transcript that the sanitizing has changed.
C3_Witness ==
    /\ pc = "generate"
    /\ Len(requests) = 1
    /\ result.raw # result.sanitized
    /\ Contains(result.raw, "203.0.113.5")
    /\ ~Contains(requests[1], "203.0.113.5")

(***************************************************************************)
(* C4. A run whose fetch succeeded and whose analysis call failed ends in  *)
(* a terminal state that shows the raw and the sanitized transcript of     *)
(* that run, with a report whose verdict is UNKNOWN.                       *)
(***************************************************************************)
C4_DegradedAnalysis ==
    analysis \in ServiceSteps =>
        /\ RunEnded
        /\ status \in {"complete", "error"}
        /\ result.success
        /\ result.raw = Transcript(prompt, outs)
        /\ <<"raw", result.raw>> \in shown
        /\ <<"sanitized", result.sanitized>> \in shown
        /\ \E item \in shown : item[1] = "report" /\ Verdict(item[2]) = "UNKNOWN"
        /\ \A item \in shown : item[1] = "report" => Verdict(item[2]) = "UNKNOWN"

\* The request failed after a complete fetch, and the run has ended.
C4_Witness ==
    /\ analysis = "request"
    /\ RunEnded
    /\ Len(outs) = Len(commands)
    /\ result.raw # result.sanitized

(***************************************************************************)
(* C5. The commands are written one at a time in the order of the list     *)
(* over one session, each after the output of the one before it was read,  *)
(* and the raw transcript is the prompt header followed by the             *)
(* command/output blocks in that order.                                    *)
(***************************************************************************)
C5_InOrder ==
    /\ Len(sent) <= Len(commands)
    /\ \A k \in 1..Len(sent) : sent[k] = commands[k]
    /\ Len(outs) <= Len(sent)
    /\ Len(sent) <= Len(outs) + 1
    /\ Len(sent) > 0 => opens = 1
    /\ raw_output = Transcript(prompt, outs)
    /\ (pc \in {"returned", "ask", "generate"} /\ result.success) =>
           /\ sent = commands
           /\ result.raw = Transcript(prompt, outs)
           /\ StartsWith(result.raw, "Connected to: " \o prompt \o "\n")

\* All four commands were answered, the first two differently.
C5_Witness ==
    /\ pc = "returned"
    /\ result.success
    /\ Len(outs) = 4
    /\ outs[1] # outs[2]

(***************************************************************************)
(* C6 as claimed: a command that fails while the session has not failed    *)
(* with an authentication or timeout error does not abort the fetch: the   *)
(* remaining commands are issued and the fetch returns a transcript.       *)
(***************************************************************************)
C6_CommandFailureNeverAborts ==
    (pc = "returned" /\ failure.kind = "other" /\ failure.at >= 1) =>
        /\ result.success
        /\ sent = commands

\* The text the device answers to a command it rejects.
CommandRejected == "% Invalid command at '^' marker."

(***************************************************************************)
(* C6 as amended. A command whose send_command returns (an empty or        *)
(* error-indicating text included) is recorded in the transcript with that *)
(* text as its result and does not abort the fetch: with no exception the  *)
(* fetch issues every command and returns a successful transcript holding  *)
(* each command with its own output. An exception raised by send_command,  *)
(* of any kind, aborts the fetch at that command.                          *)
(***************************************************************************)
C6_OnlyExceptionsAbort ==
    /\ (pc = "returned" /\ ~FetchFailed) =>
           /\ result.success
           /\ sent = commands
           /\ Len(outs) = Len(commands)
           /\ \A k \in 1..Len(outs) :
                  Contains(result.raw,
                           "[Command] " \o commands[k] \o "\n" \o outs[k] \o "\n")
    /\ FetchFailed =>
           /\ ~result.success
           /\ Len(sent) = failure.at

\* The device rejected the second command and the fetch returned a transcript.
C6_Witness ==
    /\ pc = "returned"
    /\ result.success
    /\ outs[2] = CommandRejected
    /\ Len(sent) = 4

(***************************************************************************)
(* C7. A failure that aborts connect_and_fetch is returned as a Network    *)
(* Error exactly when it was an authentication failure or a timeout, and   *)
(* as a System Error carrying the original message otherwise; no command   *)
(* is written after the failing step.                                      *)
(***************************************************************************)
C7_ErrorKinds ==
    FetchFailed =>
        /\ ~result.success
        /\ StartsWith(result.error, "Network Error: ")
               <=> failure.kind \in {"timeout", "auth"}
        /\ StartsWith(result.error, "System Error: ") <=> failure.kind = "other"
        /\ failure.kind = "other" =>
               result.error = "System Error: " \o ExceptionText("other")
        /\ Len(sent) = failure.at
        /\ Len(outs) <= failure.at

\* Another exception than a timeout or an authentication failure, at the
\* third command.
C7_Witness ==
    /\ failure = [kind |-> "other", at |-> 3]
    /\ StartsWith(result.error, "System Error: ")
    /\ RunEnded

(***************************************************************************)
(* C8. No failure of the reasoning service leaves ask_gemini_agent: for a  *)
(* failure of the model construction, of the request or of reading the     *)
(* response text it returns a value carrying the message, and the run goes *)
(* on to its end.                                                          *)
(***************************************************************************)
C8_NoEscape ==
    /\ ~uncaught
    /\ analysis \in ServiceSteps =>
           /\ RunEnded
           /\ status = "complete"
           /\ StartsWith(session_state["ai_response"], "AI Agent Error: ")
           /\ Contains(session_state["ai_response"], ServiceErrorText(analysis))

\* Reading the response text failed and the run has ended.
C8_Witness ==
    /\ analysis = "text"
    /\ RunEnded
    /\ status = "complete"

(***************************************************************************)
(* C9. With blocking calls that return or time out, every started run      *)
(* reaches a terminal state (the script run has ended with the status      *)
(* complete or error), and from a terminal state the only step that leaves *)
(* it is the start of another run.                                         *)
(***************************************************************************)
Terminal == RunEnded /\ status \in {"complete", "error"}

C9_Terminates ==
    /\ [](~RunEnded => <>Terminal)
    /\ [][RunEnded => (pc' = "idle" \/ (pc' = "connect" /\ status' = "running"))]_vars

\* A run went through four commands and the analysis and has ended.
C9_Witness ==
    /\ Terminal
    /\ status = "complete"
    /\ Len(outs) = 4

(***************************************************************************)
(* C10 as claimed: sanitize_output is idempotent, a second application     *)
(* changes nothing.                                                        *)
(***************************************************************************)
C10_Idempotent == Len(san_res) >= 2 => san_res[2] = san_res[1]

\* The input text sanitize_output was applied to, and what it returned.
SanInput == Concat(san_parts)

SanOutput == san_res[1]

\* The positions of fragment k in the input text: its first character, and
\* the position after its last.
PartStart(k) == Len(Concat(SubSeq(san_parts, 1, k - 1))) + 1

PartEnd(k) == PartStart(k) + Len(san_parts[k])

\* Fragment k stands in the input text as a word of its own: a word boundary
\* before it and one after it.
Delimited(k) ==
    /\ WordBoundary(SanInput, PartStart(k))
    /\ WordBoundary(SanInput, PartEnd(k))

\* Fragment k is set off by white space or by the ends of the text.
Spaced(k) ==
    /\ At(SanInput, PartStart(k) - 1) \in Whitespace \cup {""}
    /\ At(SanInput, PartEnd(k)) \in Whitespace \cup {""}

\* The fragments that are IPv4 literals of the private ranges, and those that
\* are literals outside them.
PrivateLiterals == {"10.1.1.1", "172.16.0.1", "192.168.1.1"}

PublicLiterals == {"203.0.113.5", "172.32.0.1"}

(***************************************************************************)
(* C11 as claimed: an IPv4 literal of the private ranges in the input      *)
(* text, whatever precedes or follows it, is in the output unchanged.      *)
(* Stated for the literals that stand as words of their own.               *)
(***************************************************************************)
C11_PrivatePreserved ==
    Len(san_res) >= 1 =>
        \A k \in 1..Len(san_parts) :
            (san_parts[k] \in PrivateLiterals /\ Delimited(k)) =>
                Contains(SanOutput, san_parts[k])

(***************************************************************************)
(* C12 as claimed: every IPv4 literal outside the private ranges in the    *)
(* input text is replaced as a whole, no octet of it remains in the        *)
(* output.                                                                 *)
(***************************************************************************)
C12_PublicMasked ==
    Len(san_res) >= 1 =>
        \A k \in 1..Len(san_parts) :
            san_parts[k] \in PublicLiterals => ~Contains(SanOutput, san_parts[k])

\* The secret token of a fragment that matches a credential pattern.
SecretToken(f) ==
    CASE f = "password 7 pw1" -> "pw1"
      [] f = "encrypted password pw2" -> "pw2"
      [] f = "snmp-server community MySecret123" -> "MySecret123"
      [] f = "username bob privilege 15 secret 5 pw3" -> "pw3"
      [] OTHER -> ""

(***************************************************************************)
(* C13 as claimed: the secret token of an input that matches a password,   *)
(* secret or community-string pattern does not occur in the output,        *)
(* whichever earlier rule has rewritten part of the input. Stated for the  *)
(* credentials set off by white space from the rest of the text.           *)
(***************************************************************************)
C13_CredentialContained ==
    Len(san_res) >= 1 =>
        \A k \in 1..Len(san_parts) :
            (SecretToken(san_parts[k]) # "" /\ Spaced(k)) =>
                ~Contains(SanOutput, SecretToken(san_parts[k]))

\* The results of a run are stored.
Stored == {"diag_result", "ai_response"} \subseteq DOMAIN session_state

(***************************************************************************)
(* C14. Once a run has stored its results, the raw transcript, the         *)
(* sanitized transcript and the report stay stored in every later state; a *)
(* script run that is not a start of diagnostics only renders them, opens  *)
(* no session and makes no request; a start of diagnostics opens at most   *)
(* one session and makes at most one request.                              *)
(***************************************************************************)
C14_RenderOnly ==
    /\ []((opens > 0 \/ requests # <<>> \/ pc # "idle") => status # "none")
    /\ [](opens <= 1 /\ Len(requests) <= 1)
    /\ [][Stored => Stored']_vars
    /\ [][(pc = "idle" /\ status' = "none") =>
              /\ pc' = "idle"
              /\ opens' = 0
              /\ requests' = <<>>
              /\ session_state' = session_state
              /\ shown' = Display(session_state)
              /\ Stored =>
                     shown' = {<<"report", session_state["ai_response"]>>,
                               <<"sanitized", session_state["diag_result"].sanitized>>,
                               <<"raw", session_state["diag_result"].raw>>}]_vars

\* A run has stored its results and the script has then run again without a
\* start, rendering the three of them.
C14_Witness ==
    /\ Stored
    /\ pc = "idle"
    /\ status = "none"
    /\ opens = 0
    /\ requests = <<>>
    /\ Cardinality(shown) = 3

(***************************************************************************)
(* C15 as claimed: a run ends with the status completed only when the      *)
(* reasoning service returned a report in that run.                        *)
(***************************************************************************)
C15_DoneOnlyWithReport ==
    (RunEnded /\ status = "complete") => analysis = "ok"

C18_ClosedBeforeSanitize ==
    /\ pc \in {"sanitize", "ask", "generate"} =>
           /\ ssh = "closed"
           /\ opens = 1
           /\ closes = 1
    /\ opens - closes \in {0, 1}
    /\ ssh = "open" => pc \in {"find_prompt", "send_command", "read_output", "disconnect"}

\* The request is in flight and the session of the run was released.
C18_Witness ==
    /\ pc = "generate"
    /\ ssh = "closed"
    /\ Len(requests) = 1

(***************************************************************************)
(* C19. With GOOGLE_API_KEY still the placeholder, ask_gemini_agent makes  *)
(* no request and returns the fixed configuration message; the run ends    *)
(* and stores the raw and the sanitized transcript with that message as    *)
(* the report.                                                             *)
(***************************************************************************)
C19_UnsetKeyNoRequest ==
    /\ [](GOOGLE_API_KEY = KeyPlaceholder =>
             /\ requests = <<>>
             /\ pc # "generate"
             /\ analysis = "none"
             /\ Stored => session_state["ai_response"] = ConfigErrorMessage)
    /\ [][(GOOGLE_API_KEY = KeyPlaceholder /\ pc = "ask") =>
              /\ pc' = "idle"
              /\ status' = "complete"
              /\ requests' = <<>>
              /\ session_state' =
                     [diag_result |-> [success |-> TRUE,
                                       raw |-> Transcript(prompt, outs),
                                       sanitized |-> result.sanitized],
                      ai_response |-> ConfigErrorMessage]
              /\ shown' = Display(session_state')]_vars

\* The key is the placeholder and a run has ended with its results stored.
C19_Witness ==
    /\ GOOGLE_API_KEY = KeyPlaceholder
    /\ RunEnded
    /\ status = "complete"
    /\ Stored
    /\ session_state["diag_result"].raw # session_state["diag_result"].sanitized
====
